---- MODULE Spec2Model ----
(***************************************************************************)
(* Model of the news-portal backend: the user routes (users.ts), the      *)
(* basic-settings routes (basic.ts) and the upload routes (index.ts).     *)
(*                                                                         *)
(* Every HTTP request is run by one of the request slots in Procs.  A     *)
(* handler is cut at its awaits: one step is one SQL statement executed   *)
(* by the database together with the synchronous JavaScript that runs     *)
(* up to the next statement.  A handler's response is recorded in resp    *)
(* and the slot is freed by Return; as res.json() is called in the same   *)
(* synchronous block as the handler's last step, no other handler runs    *)
(* between the two.                                                        *)
(***************************************************************************)
EXTENDS Integers, Sequences, FiniteSets, TLC

VARIABLES
    pc,           \* pc[p]: position of slot p inside its handler ("idle" when free)
    req,          \* req[p]: the request slot p is serving, with the handler's locals
    resp,         \* resp[p]: the response the handler has produced (NoResp before)
    oneAtATime,   \* TRUE when requests are issued one after the other
    users,        \* table users: sequence of rows in insertion order
    nextUserId,   \* the serial of users.id
    settings,     \* table basic_settings: sequence of rows ordered by id
    uploads,      \* table uploads: sequence of rows ordered by id
    nextUploadId, \* the serial of uploads.id
    disk,         \* the files that exist under ./uploads
    nextFile,     \* number of file names generated so far (uuidv4 never repeats)
    unlinked,     \* paths fs.unlinkSync was called on
    unlinkFailed, \* paths on which fs.unlinkSync threw
    served        \* number of requests accepted so far

vars == <<pc, req, resp, oneAtATime, users, nextUserId, settings, uploads,
          nextUploadId, disk, nextFile, unlinked, unlinkFailed, served>>

userVars == <<users, nextUserId>>
settingsVars == <<settings>>
uploadVars == <<uploads, nextUploadId>>
fileVars == <<disk, nextFile, unlinked, unlinkFailed>>

----------------------------------------------------------------------------
(* Bounds of the model *)

NumProcs == 2        \* request slots
MaxRequests == 3     \* requests served in one run
MaxUsers == 2        \* rows ever inserted into users
MaxSettingsRows == 2 \* rows ever inserted into basic_settings
MaxUploads == 2      \* rows ever inserted into uploads
MaxFiles == 3        \* files ever written by the upload middleware
MaxBatch == 2        \* files of one /multiple or /mixed request

Procs == 1..NumProcs

----------------------------------------------------------------------------
(* Values *)

Null == "<null>"     \* undefined in a request body, NULL in a column
NoEmail == <<>>      \* an absent (or empty) email

\* JavaScript truthiness of a string value: undefined and "" are falsy
Truthy(v) == v # Null /\ v # ""

NoReq == [kind |-> "none"]
NoData == [none |-> TRUE]
NoResp == [status |-> 0, message |-> Null, data |-> NoData]

Response(status, message, data) ==
    [status |-> status, message |-> message, data |-> data]

Idle(p) == pc[p] = "idle"

\* a handler has produced its response and is sending it
Responding == \E q \in Procs : pc[q] = "done"

\* slot p is at the await named label and its statement is executed next
At(p, label) == pc[p] = label /\ ~Responding

\* A new request is accepted by slot p; when requests run one at a time no
\* other request is in flight.
CanStart(p) ==
    /\ Idle(p)
    /\ ~Responding
    /\ oneAtATime => \A q \in Procs : Idle(q)
    /\ served < MaxRequests

Accept == served' = served + 1

\* The handler of slot p ends with response r.
Finish(p, r) ==
    /\ pc' = [pc EXCEPT ![p] = "done"]
    /\ resp' = [resp EXCEPT ![p] = r]

Goto(p, label) ==
    /\ pc' = [pc EXCEPT ![p] = label]
    /\ UNCHANGED resp

\* The response has been sent: the slot is free again.
Return(p) ==
    /\ pc[p] = "done"
    /\ pc' = [pc EXCEPT ![p] = "idle"]
    /\ req' = [req EXCEPT ![p] = NoReq]
    /\ resp' = [resp EXCEPT ![p] = NoResp]
    /\ UNCHANGED <<oneAtATime, served, userVars, settingsVars, uploadVars, fileVars>>

----------------------------------------------------------------------------
(* users.ts *)

Alphabet == {"a", "A", "b"}
Emails == {<<c>> : c \in Alphabet}
Names == {"Ann"}
Passwords == {"pw1", "pw2"}
Roles == {"admin"}

\* String.prototype.toLowerCase, character by character
LowerChar(c) == CASE c = "A" -> "a" [] c = "B" -> "b" [] OTHER -> c
ToLowerCase(s) == [i \in DOMAIN s |-> LowerChar(s[i])]

\* bcrypt.hash and bcrypt.compare
Hash(password) == <<"bcrypt", password>>
Compare(password, hashed) == hashed = Hash(password)

UsersByEmail(e) == SelectSeq(users, LAMBDA r : r.email = e)
UsersById(id) == SelectSeq(users, LAMBDA r : r.id = id)
UserIds == 1..MaxUsers

\* registrations that may still insert: the serial is capped at MaxUsers
InsertsInFlight == Cardinality({q \in Procs : pc[q] \in {"reg_select", "reg_insert"}})

\* the public columns a RETURNING clause gives back
UserPublic(r) == [id |-> r.id, name |-> r.name, email |-> r.email, role |-> r.role]

\* the email column value an INSERT or UPDATE writes for a request email
StoredEmailMixedCase(email) == email
StoredEmail(email) == ToLowerCase(email)

\* POST /registration: body parsing and validation
StartRegister(p) ==
    /\ CanStart(p)
    /\ Accept
    /\ nextUserId + InsertsInFlight <= MaxUsers
    /\ \E name \in Names \cup {Null}, email \in Emails \cup {NoEmail},
          password \in Passwords \cup {Null}, role \in Roles \cup {Null, ""} :
         /\ req' = [req EXCEPT ![p] = [kind |-> "register", name |-> name,
                                      email |-> email, password |-> password,
                                      role |-> role]]
         /\ IF ~Truthy(name) \/ email = NoEmail \/ ~Truthy(password)
            THEN Finish(p, Response(500, "Name, email and password are required", NoData))
            ELSE Goto(p, "reg_select")
    /\ UNCHANGED <<oneAtATime, userVars, settingsVars, uploadVars, fileVars>>

\* SELECT * FROM users WHERE email = $1
RegisterSelect(p) ==
    /\ At(p, "reg_select")
    /\ IF Len(UsersByEmail(ToLowerCase(req[p].email))) > 0
       THEN Finish(p, Response(409, "User already exists", NoData))
       ELSE Goto(p, "reg_insert")
    /\ UNCHANGED <<req, oneAtATime, served, userVars, settingsVars, uploadVars, fileVars>>

\* INSERT INTO users (name, email, password, role) ... RETURNING ...
RegisterInsert(p) ==
    /\ At(p, "reg_insert")
    /\ LET row == [id |-> nextUserId,
                   name |-> req[p].name,
                   email |-> StoredEmail(req[p].email),
                   password |-> Hash(req[p].password),
                   role |-> IF Truthy(req[p].role) THEN req[p].role ELSE "user",
                   updated_at |-> 0]
       IN /\ users' = Append(users, row)
          /\ nextUserId' = nextUserId + 1
          /\ Finish(p, Response(201, "User Registered Successfully", UserPublic(row)))
    /\ UNCHANGED <<req, oneAtATime, served, settingsVars, uploadVars, fileVars>>

\* the status of a login whose email matches no row
UnknownEmailStatus == 400
\* the status of a login whose password does not match
WrongPasswordStatus == 401

\* POST /login: body parsing and validation
StartLogin(p) ==
    /\ CanStart(p)
    /\ Accept
    /\ \E email \in Emails \cup {NoEmail}, password \in Passwords \cup {Null} :
         /\ req' = [req EXCEPT ![p] = [kind |-> "login", email |-> email,
                                      password |-> password]]
         /\ IF email = NoEmail \/ ~Truthy(password)
            THEN Finish(p, Response(400, "Email and password are required", NoData))
            ELSE Goto(p, "login_select")
    /\ UNCHANGED <<oneAtATime, userVars, settingsVars, uploadVars, fileVars>>

\* SELECT * FROM users WHERE email = $1, bcrypt.compare, jwt.sign
LoginSelect(p) ==
    /\ At(p, "login_select")
    /\ LET rows == UsersByEmail(ToLowerCase(req[p].email))
       IN IF Len(rows) = 0
          THEN Finish(p, Response(UnknownEmailStatus, "Invalid Credentials", NoData))
          ELSE IF ~Compare(req[p].password, rows[1].password)
          THEN Finish(p, Response(WrongPasswordStatus, "Invalid Credentials", NoData))
          ELSE Finish(p, Response(200, "Login Sucessful",
                                  [token |-> UserPublic(rows[1]), user |-> UserPublic(rows[1])]))
    /\ UNCHANGED <<req, oneAtATime, served, userVars, settingsVars, uploadVars, fileVars>>

\* PUT /:id: body parsing
StartUpdateUser(p) ==
    /\ CanStart(p)
    /\ Accept
    /\ \E id \in UserIds, name \in Names \cup {Null}, email \in Emails \cup {NoEmail},
          password \in Passwords \cup {Null}, role \in Roles \cup {Null} :
         req' = [req EXCEPT ![p] = [kind |-> "updateUser", id |-> id, name |-> name,
                                    email |-> email, password |-> password,
                                    role |-> role]]
    /\ Goto(p, "upd_check")
    /\ UNCHANGED <<oneAtATime, userVars, settingsVars, uploadVars, fileVars>>

\* the SET list the handler builds: one entry per truthy body field, then
\* updated_at = CURRENT_TIMESTAMP, which is pushed unconditionally
updateFields(q) ==
    (IF Truthy(q.name) THEN <<"name">> ELSE <<>>)
    \o (IF q.email # NoEmail THEN <<"email">> ELSE <<>>)
    \o (IF Truthy(q.password) THEN <<"password">> ELSE <<>>)
    \o (IF Truthy(q.role) THEN <<"role">> ELSE <<>>)
    \o <<"updated_at">>

\* if (updateFields.length === 0) return 400, else go on to the UPDATE
UpdateUserBuild(p) ==
    IF Len(updateFields(req[p])) = 0
    THEN Finish(p, Response(400, "No fields to update", NoData))
    ELSE Goto(p, "upd_write")

\* SELECT * FROM users WHERE id = $1
UpdateUserCheck(p) ==
    /\ At(p, "upd_check")
    /\ IF Len(UsersById(req[p].id)) = 0
       THEN Finish(p, Response(404, "User not found", NoData))
       ELSE IF req[p].email # NoEmail THEN Goto(p, "upd_email")
       ELSE UpdateUserBuild(p)
    /\ UNCHANGED <<req, oneAtATime, served, userVars, settingsVars, uploadVars, fileVars>>

\* the rows of SELECT * FROM users WHERE email = $1 AND id != $2
emailCheckAnyId(email, id) == SelectSeq(users, LAMBDA r : r.email = ToLowerCase(email))
emailCheck(email, id) ==
    SelectSeq(users, LAMBDA r : r.email = ToLowerCase(email) /\ r.id # id)

\* SELECT * FROM users WHERE email = $1 AND id != $2
UpdateUserEmailCheck(p) ==
    /\ At(p, "upd_email")
    /\ IF Len(emailCheck(req[p].email, req[p].id)) > 0
       THEN Finish(p, Response(409, "Email Already exists for another user", NoData))
       ELSE UpdateUserBuild(p)
    /\ UNCHANGED <<req, oneAtATime, served, userVars, settingsVars, uploadVars, fileVars>>

\* the row after UPDATE users SET <the supplied fields> WHERE id = $n
UpdatedUser(r, q) ==
    [id |-> r.id,
     name |-> IF Truthy(q.name) THEN q.name ELSE r.name,
     email |-> IF q.email # NoEmail THEN StoredEmail(q.email) ELSE r.email,
     password |-> IF Truthy(q.password) THEN Hash(q.password) ELSE r.password,
     role |-> IF Truthy(q.role) THEN q.role ELSE r.role,
     updated_at |-> r.updated_at + 1]

\* UPDATE users SET ... WHERE id = $n RETURNING ...
UpdateUserWrite(p) ==
    /\ At(p, "upd_write")
    /\ users' = [i \in DOMAIN users |->
                   IF users[i].id = req[p].id THEN UpdatedUser(users[i], req[p])
                   ELSE users[i]]
    /\ Finish(p, Response(200, "User updated successfully", NoData))
    /\ UNCHANGED <<req, oneAtATime, served, nextUserId, settingsVars, uploadVars, fileVars>>

\* DELETE /:id: parameter parsing
StartDeleteUser(p) ==
    /\ CanStart(p)
    /\ Accept
    /\ \E id \in UserIds : req' = [req EXCEPT ![p] = [kind |-> "deleteUser", id |-> id]]
    /\ Goto(p, "udel_check")
    /\ UNCHANGED <<oneAtATime, userVars, settingsVars, uploadVars, fileVars>>

\* SELECT * FROM users WHERE id = $1
DeleteUserCheck(p) ==
    /\ At(p, "udel_check")
    /\ IF Len(UsersById(req[p].id)) = 0
       THEN Finish(p, Response(404, "User not found", NoData))
       ELSE Goto(p, "udel_delete")
    /\ UNCHANGED <<req, oneAtATime, served, userVars, settingsVars, uploadVars, fileVars>>

\* DELETE FROM users WHERE id = $1 RETURNING id, name, email
DeleteUserDelete(p) ==
    /\ At(p, "udel_delete")
    /\ users' = SelectSeq(users, LAMBDA r : r.id # req[p].id)
    /\ Finish(p, Response(200, "User deleted successfully", NoData))
    /\ UNCHANGED <<req, oneAtATime, served, nextUserId, settingsVars, uploadVars, fileVars>>

UsersNext ==
    \E p \in Procs :
        \/ StartRegister(p)
        \/ RegisterSelect(p)
        \/ RegisterInsert(p)
        \/ StartLogin(p)
        \/ LoginSelect(p)
        \/ StartUpdateUser(p)
        \/ UpdateUserCheck(p)
        \/ UpdateUserEmailCheck(p)
        \/ UpdateUserWrite(p)
        \/ StartDeleteUser(p)
        \/ DeleteUserCheck(p)
        \/ DeleteUserDelete(p)
        \/ Return(p)

----------------------------------------------------------------------------
(* Files: the multer upload middleware, the Express error path, fs *)

NoPath == <<>>       \* a NULL url column / no file

\* the name multer's filename callback gives the next file written to dir:
\* it carries a fresh uuid, so no two files share a path
NewPath(dir) == <<dir, nextFile + 1>>

\* busboy's fileSize limit: a file longer than the limit is refused
TooLarge(size, limit) == size > limit

\* An error raised by the upload middleware is passed to next(err): the route
\* handler (and its try/catch) is skipped and Express's default error handler
\* answers with status 500 and the error's message.
MiddlewareError(p, message) == Finish(p, Response(500, message, NoData))

\* fs.existsSync(path) && fs.unlinkSync(path) inside try/catch: the file is
\* removed, or unlinkSync throws and the file stays
TryUnlink(paths) ==
    /\ unlinked' = unlinked \cup (paths \cap disk)
    /\ \/ /\ disk' = disk \ paths
          /\ UNCHANGED unlinkFailed
       \/ /\ paths \cap disk # {}
          /\ disk' = disk
          /\ unlinkFailed' = unlinkFailed \cup (paths \cap disk)
    /\ UNCHANGED nextFile

----------------------------------------------------------------------------
(* basic.ts *)

SettingsIds == 1..MaxSettingsRows

\* the fourteen body fields of POST / and PUT /:id, in the order both handlers
\* bind them to $1..$14
ConfigColumns ==
    <<"site_name", "tagline", "contact_email", "facebook_url", "x_url",
      "instagram_url", "meta_description", "meta_keywords", "meta_author",
      "google_analytics_id", "contact_phone", "contact_address",
      "copyright_text", "maintenance_mode">>
ConfigFields == {ConfigColumns[n] : n \in DOMAIN ConfigColumns}
\* the column list of the INSERT
InsertColumns == ConfigColumns \o <<"created_by", "updated_by">>
\* every column of basic_settings the model keeps (updated_at and created_at
\* are left out)
Columns ==
    {"id", "logo_url", "favicon_url"} \cup {InsertColumns[n] : n \in DOMAIN InsertColumns}
ColumnIndex(columns, c) == CHOOSE n \in DOMAIN columns : columns[n] = c

\* the values a body gives its fields: two strings, and for maintenance_mode
\* the two booleans, written "true" and "false"
Value(f, k) ==
    IF f = "maintenance_mode" THEN (IF k = 1 THEN "true" ELSE "false")
    ELSE (IF k = 1 THEN "v1" ELSE "v2")
\* the sets of fields a body supplies: none, any one field, or site_name and
\* tagline when requests run one at a time; none, site_name or tagline when
\* they overlap
SuppliedSets ==
    IF oneAtATime
    THEN {{}} \cup {{f} : f \in ConfigFields} \cup {{"site_name", "tagline"}}
    ELSE {{}, {"site_name"}, {"tagline"}}
\* req.body: a field the body does not supply is undefined
Body(supplied, k) ==
    [f \in ConfigFields |-> IF f \in supplied THEN Value(f, k) ELSE Null]
\* the bodies of POST / carry the first value of each field; those of PUT /:id
\* the second value when requests run one at a time, so that an update is
\* seen to replace what a create stored
CreateBodies == {Body(supplied, 1) : supplied \in SuppliedSets}
UpdateBodies == {Body(supplied, IF oneAtATime THEN 2 ELSE 1) : supplied \in SuppliedSets}

\* req.user?.id || null: no middleware of the application sets req.user
AuthUserId == Null
\* value || null
OrNull(v) == IF Truthy(v) THEN v ELSE Null
\* maintenance_mode || false
OrFalse(v) == IF v = "true" THEN "true" ELSE "false"

\* imageFileFilter's allowedTypes
ImageTypes == {"image/jpeg", "image/jpg", "image/png", "image/gif", "image/webp",
               "image/svg+xml", "image/x-icon", "image/vnd.microsoft.icon"}
\* the MIME types the model uploads to the logo and favicon routes
AssetMimeSamples == {"image/png", "image/x-icon", "application/pdf"}

LogoLimit == 2 * 1024 * 1024
FaviconLimit == 1 * 1024 * 1024
AssetLimit(kind) == IF kind = "logo" THEN LogoLimit ELSE FaviconLimit
\* logoStorage / faviconStorage destination
AssetDir(kind) ==
    IF kind = "logo" THEN "./uploads/settings/logo" ELSE "./uploads/settings/favicon"
AssetSizes(kind) == {1024, AssetLimit(kind), AssetLimit(kind) + 1}

imageFileFilter(mimetype) == mimetype \in ImageTypes

\* SELECT ... FROM basic_settings ORDER BY id DESC LIMIT 1
NewestSettings == IF settings = <<>> THEN <<>> ELSE <<settings[Len(settings)]>>

\* SELECT id FROM basic_settings LIMIT 1
AnySettings == IF settings = <<>> THEN <<>> ELSE <<settings[1]>>

CreatesInFlight == Cardinality({q \in Procs : pc[q] \in {"set_exists", "set_insert"}})

\* the column an asset route writes
UrlColumnSwapped(kind) == IF kind = "logo" THEN "favicon_url" ELSE "logo_url"
UrlColumn(kind) == IF kind = "logo" THEN "logo_url" ELSE "favicon_url"

\* POST /: body parsing and validation
StartCreateSettings(p) ==
    /\ CanStart(p)
    /\ Accept
    /\ Len(settings) + CreatesInFlight < MaxSettingsRows
    /\ \E body \in CreateBodies :
         /\ req' = [req EXCEPT ![p] = [kind |-> "createSettings", body |-> body]]
         /\ IF ~Truthy(body.site_name)
            THEN Finish(p, Response(400, "Site name is required", NoData))
            ELSE Goto(p, "set_exists")
    /\ UNCHANGED <<oneAtATime, userVars, settingsVars, uploadVars, fileVars>>

\* if (existingSettings.rows.length > 0)
AlreadyExistsMoreThanOne(existingSettings) == Len(existingSettings) > 1
AlreadyExists(existingSettings) == Len(existingSettings) > 0

\* SELECT id FROM basic_settings LIMIT 1
CreateSettingsExists(p) ==
    /\ At(p, "set_exists")
    /\ IF AlreadyExists(AnySettings)
       THEN Finish(p, Response(400, "Settings already exist. Use PUT to update.", NoData))
       ELSE Goto(p, "set_insert")
    /\ UNCHANGED <<req, oneAtATime, served, userVars, settingsVars, uploadVars, fileVars>>

\* the values array of the INSERT
InsertValues(body) ==
    <<body.site_name, OrNull(body.tagline), OrNull(body.contact_email),
      OrNull(body.facebook_url), OrNull(body.x_url), OrNull(body.instagram_url),
      OrNull(body.meta_description), OrNull(body.meta_keywords),
      OrNull(body.meta_author), OrNull(body.google_analytics_id),
      OrNull(body.contact_phone), OrNull(body.contact_address),
      OrNull(body.copyright_text), OrFalse(body.maintenance_mode),
      AuthUserId, AuthUserId>>

\* the row the INSERT stores: the listed columns take their values by
\* position, id is the serial, logo_url and favicon_url default to NULL
InsertedRow(id, values) ==
    [c \in Columns |->
        IF c = "id" THEN id
        ELSE IF c \in {"logo_url", "favicon_url"} THEN NoPath
        ELSE values[ColumnIndex(InsertColumns, c)]]

\* INSERT INTO basic_settings (...) VALUES (...) RETURNING *
CreateSettingsInsert(p) ==
    /\ At(p, "set_insert")
    /\ LET row == InsertedRow(Len(settings) + 1, InsertValues(req[p].body))
       IN /\ settings' = Append(settings, row)
          /\ Finish(p, Response(201, "Basic settings created successfully", row))
    /\ UNCHANGED <<req, oneAtATime, served, userVars, uploadVars, fileVars>>

\* PUT /:id: body parsing
StartUpdateSettings(p) ==
    /\ CanStart(p)
    /\ Accept
    /\ \E id \in SettingsIds, body \in UpdateBodies :
         req' = [req EXCEPT ![p] = [kind |-> "updateSettings", id |-> id, body |-> body]]
    /\ Goto(p, "sput_check")
    /\ UNCHANGED <<oneAtATime, userVars, settingsVars, uploadVars, fileVars>>

\* SELECT * FROM basic_settings WHERE id = $1
UpdateSettingsCheck(p) ==
    /\ At(p, "sput_check")
    /\ IF \A i \in DOMAIN settings : settings[i].id # req[p].id
       THEN Finish(p, Response(404, "Settings not found", NoData))
       ELSE Goto(p, "sput_write")
    /\ UNCHANGED <<req, oneAtATime, served, userVars, settingsVars, uploadVars, fileVars>>

\* COALESCE($n, column)
CoalesceColumnFirst(supplied, current) == IF current # Null THEN current ELSE supplied
Coalesce(supplied, current) == IF supplied # Null THEN supplied ELSE current

\* the values array of the UPDATE: $1..$14 the body fields, $15 updatedBy, $16 id
UpdateValues(body, id) ==
    <<body.site_name, body.tagline, body.contact_email, body.facebook_url,
      body.x_url, body.instagram_url, body.meta_description, body.meta_keywords,
      body.meta_author, body.google_analytics_id, body.contact_phone,
      body.contact_address, body.copyright_text, body.maintenance_mode,
      AuthUserId, id>>

\* a row after SET column = COALESCE($n, column) for the fourteen columns and
\* updated_by = $15
UpdatedRow(r, values) ==
    [c \in Columns |->
        IF c \in ConfigFields THEN Coalesce(values[ColumnIndex(ConfigColumns, c)], r[c])
        ELSE IF c = "updated_by" THEN values[15]
        ELSE r[c]]

\* UPDATE basic_settings SET column = COALESCE($n, column), ... WHERE id = $16
UpdateSettingsWrite(p) ==
    /\ At(p, "sput_write")
    /\ LET values == UpdateValues(req[p].body, req[p].id)
       IN settings' = [i \in DOMAIN settings |->
                         IF settings[i].id = values[16]
                         THEN UpdatedRow(settings[i], values)
                         ELSE settings[i]]
    /\ Finish(p, Response(200, "Basic settings updated successfully", NoData))
    /\ UNCHANGED <<req, oneAtATime, served, userVars, uploadVars, fileVars>>

\* uploadLogo / uploadFavicon (multer) and the handler up to its first query
StartAsset(p, kind) ==
    /\ CanStart(p)
    /\ Accept
    /\ nextFile < MaxFiles
    /\ \/ \* the request carries no file
          /\ req' = [req EXCEPT ![p] = [kind |-> kind, path |-> NoPath,
                                       currentSettings |-> <<>>, result |-> <<>>]]
          /\ Finish(p, Response(400, IF kind = "logo" THEN "No logo file uploaded"
                                     ELSE "No favicon file uploaded", NoData))
          /\ UNCHANGED fileVars
       \/ \E mimetype \in AssetMimeSamples, size \in AssetSizes(kind) :
            IF ~imageFileFilter(mimetype)
            THEN /\ req' = [req EXCEPT ![p] = [kind |-> kind, path |-> NoPath,
                                              currentSettings |-> <<>>, result |-> <<>>]]
                 /\ MiddlewareError(p, "Only image files are allowed")
                 /\ UNCHANGED fileVars
            ELSE IF TooLarge(size, AssetLimit(kind))
            THEN \* the partly written file is removed again by multer
                 /\ req' = [req EXCEPT ![p] = [kind |-> kind, path |-> NoPath,
                                              currentSettings |-> <<>>, result |-> <<>>]]
                 /\ MiddlewareError(p, "File too large")
                 /\ nextFile' = nextFile + 1
                 /\ UNCHANGED <<disk, unlinked, unlinkFailed>>
            ELSE /\ req' = [req EXCEPT ![p] = [kind |-> kind, path |-> NewPath(AssetDir(kind)),
                                              currentSettings |-> <<>>, result |-> <<>>]]
                 /\ disk' = disk \cup {NewPath(AssetDir(kind))}
                 /\ nextFile' = nextFile + 1
                 /\ Goto(p, "asset_select")
                 /\ UNCHANGED <<unlinked, unlinkFailed>>
    /\ UNCHANGED <<oneAtATime, userVars, settingsVars, uploadVars>>

StartLogo(p) == StartAsset(p, "logo")
StartFavicon(p) == StartAsset(p, "favicon")

\* SELECT logo_url FROM basic_settings ORDER BY id DESC LIMIT 1
AssetSelect(p, kind) ==
    /\ At(p, "asset_select")
    /\ req[p].kind = kind
    /\ req' = [req EXCEPT ![p].currentSettings =
                   IF NewestSettings = <<>> THEN <<>>
                   ELSE <<NewestSettings[1][UrlColumn(kind)]>>]
    /\ Goto(p, "asset_update")
    /\ UNCHANGED <<oneAtATime, served, userVars, settingsVars, uploadVars, fileVars>>

LogoSelect(p) == AssetSelect(p, "logo")
FaviconSelect(p) == AssetSelect(p, "favicon")

\* UPDATE basic_settings SET logo_url = $1 WHERE id = (SELECT id ... ORDER BY id
\* DESC LIMIT 1) RETURNING *
AssetUpdate(p, kind) ==
    /\ At(p, "asset_update")
    /\ req[p].kind = kind
    /\ settings' = [i \in DOMAIN settings |->
                      IF i = Len(settings)
                      THEN [settings[i] EXCEPT ![UrlColumn(kind)] = req[p].path]
                      ELSE settings[i]]
    /\ req' = [req EXCEPT ![p].result =
                   IF settings = <<>> THEN <<>> ELSE <<settings'[Len(settings)]>>]
    /\ Goto(p, "asset_cleanup")
    /\ UNCHANGED <<oneAtATime, served, userVars, uploadVars, fileVars>>

LogoUpdate(p) == AssetUpdate(p, "logo")
FaviconUpdate(p) == AssetUpdate(p, "favicon")

\* the paths deleteOldFile is called with after the UPDATE:
\*   if (result.rows.length > 0 && currentSettings.rows.length > 0)
\*     if (oldLogoPath && oldLogoPath !== logoPath) deleteOldFile(oldLogoPath)
OldFilesToDeleteNewPath(result, currentSettings, newPath) ==
    IF Len(result) > 0 /\ Len(currentSettings) > 0
    THEN IF currentSettings[1] # NoPath THEN {newPath} ELSE {}
    ELSE {}
OldFilesToDelete(result, currentSettings, newPath) ==
    IF Len(result) > 0 /\ Len(currentSettings) > 0
    THEN IF currentSettings[1] # NoPath /\ currentSettings[1] # newPath
         THEN {currentSettings[1]}
         ELSE {}
    ELSE {}

\* the handler after the UPDATE: delete the old file, answer 200
AssetCleanup(p, kind) ==
    /\ At(p, "asset_cleanup")
    /\ req[p].kind = kind
    /\ TryUnlink(OldFilesToDelete(req[p].result, req[p].currentSettings, req[p].path))
    /\ Finish(p, Response(200, IF kind = "logo" THEN "Logo uploaded successfully"
                               ELSE "Favicon uploaded successfully",
                          [url |-> req[p].path]))
    /\ UNCHANGED <<req, oneAtATime, served, userVars, settingsVars, uploadVars>>

LogoCleanup(p) == AssetCleanup(p, "logo")
FaviconCleanup(p) == AssetCleanup(p, "favicon")

SettingsNext ==
    \E p \in Procs :
        \/ StartCreateSettings(p)
        \/ CreateSettingsExists(p)
        \/ CreateSettingsInsert(p)
        \/ StartUpdateSettings(p)
        \/ UpdateSettingsCheck(p)
        \/ UpdateSettingsWrite(p)
        \/ StartLogo(p)
        \/ LogoSelect(p)
        \/ LogoUpdate(p)
        \/ LogoCleanup(p)
        \/ StartFavicon(p)
        \/ FaviconSelect(p)
        \/ FaviconUpdate(p)
        \/ FaviconCleanup(p)
        \/ Return(p)

\* the routes that act on a settings row that exists: PUT /:id, POST /logo,
\* POST /favicon
ReplaceNext ==
    \E p \in Procs :
        \/ StartUpdateSettings(p)
        \/ UpdateSettingsCheck(p)
        \/ UpdateSettingsWrite(p)
        \/ StartLogo(p)
        \/ LogoSelect(p)
        \/ LogoUpdate(p)
        \/ LogoCleanup(p)
        \/ StartFavicon(p)
        \/ FaviconSelect(p)
        \/ FaviconUpdate(p)
        \/ FaviconCleanup(p)
        \/ Return(p)

----------------------------------------------------------------------------
(* index.ts: the upload routes *)

\* allowedFileTypes
images == {"image/jpeg", "image/jpg", "image/png", "image/gif", "image/webp",
           "image/svg+xml", "image/bmp", "image/tiff", "image/avif"}
videos == {"video/mp4", "video/mpeg", "video/quicktime", "video/x-msvideo",
           "video/x-ms-wmv", "video/webm", "video/3gpp", "video/x-flv"}
documents == {"application/pdf", "application/msword",
              "application/vnd.openxmlformats-officedocument.wordprocessingml.document",
              "application/vnd.ms-excel",
              "application/vnd.openxmlformats-officedocument.spreadsheetml.sheet",
              "application/vnd.ms-powerpoint",
              "application/vnd.openxmlformats-officedocument.presentationml.presentation",
              "text/plain", "text/csv", "application/rtf",
              "application/vnd.oasis.opendocument.text",
              "application/vnd.oasis.opendocument.spreadsheet",
              "application/vnd.oasis.opendocument.presentation"}
others == {"application/zip", "application/x-rar-compressed",
           "application/x-7z-compressed", "application/x-tar", "application/gzip"}

ALLOWED_MIME_TYPES == images \cup videos \cup documents \cup others

MAX_FILE_SIZE == 100 * 1024 * 1024

\* MIME types a client may declare that are not in the allow-list
UnlistedMimeTypes == {"image/x-icon", "image/heic", "audio/mpeg", "text/html",
                      "application/json", "application/octet-stream"}
AllMimeTypes == ALLOWED_MIME_TYPES \cup UnlistedMimeTypes

\* the MIME types and sizes the model uploads through the routes
UploadMimeSamples == {"image/png", "video/mp4", "text/csv", "application/zip",
                      "text/html"}
UploadSizes == {MAX_FILE_SIZE, MAX_FILE_SIZE + 1}
UploadIds == 1..MaxUploads

\* storage.destination
destinationNoDocuments(mimetype) ==
    IF mimetype \in images THEN "./uploads/images"
    ELSE IF mimetype \in videos THEN "./uploads/videos"
    ELSE "./uploads/others"
destination(mimetype) ==
    IF mimetype \in images THEN "./uploads/images"
    ELSE IF mimetype \in videos THEN "./uploads/videos"
    ELSE IF mimetype \in documents THEN "./uploads/documents"
    ELSE "./uploads/others"

fileFilter(mimetype) == mimetype \in ALLOWED_MIME_TYPES

getFileCategory(mimetype) ==
    IF mimetype \in images THEN "image"
    ELSE IF mimetype \in videos THEN "video"
    ELSE IF mimetype \in documents THEN "document"
    ELSE "other"

\* NOW() of the next INSERT: the time advances with every row stored
Now == nextUploadId

SingleInFlight == Cardinality({q \in Procs : pc[q] = "single_insert"})

\* upload.single("file") (multer) and the handler up to its INSERT
StartSingle(p) ==
    /\ CanStart(p)
    /\ Accept
    /\ nextFile < MaxFiles
    /\ nextUploadId + SingleInFlight <= MaxUploads
    /\ \/ \* the request carries no file
          /\ req' = [req EXCEPT ![p] = [kind |-> "single", mimetype |-> Null,
                                       size |-> 0, path |-> NoPath]]
          /\ Finish(p, Response(400, "No file uploaded", NoData))
          /\ UNCHANGED fileVars
       \/ \E mimetype \in UploadMimeSamples, size \in UploadSizes :
            IF ~fileFilter(mimetype)
            THEN /\ req' = [req EXCEPT ![p] = [kind |-> "single", mimetype |-> mimetype,
                                              size |-> size, path |-> NoPath]]
                 /\ MiddlewareError(p, "File type not allowed")
                 /\ UNCHANGED fileVars
            ELSE IF TooLarge(size, MAX_FILE_SIZE)
            THEN \* the partly written file is removed again by multer
                 /\ req' = [req EXCEPT ![p] = [kind |-> "single", mimetype |-> mimetype,
                                              size |-> size, path |-> NoPath]]
                 /\ MiddlewareError(p, "File too large")
                 /\ nextFile' = nextFile + 1
                 /\ UNCHANGED <<disk, unlinked, unlinkFailed>>
            ELSE /\ req' = [req EXCEPT ![p] = [kind |-> "single", mimetype |-> mimetype,
                                              size |-> size,
                                              path |-> NewPath(destination(mimetype))]]
                 /\ disk' = disk \cup {NewPath(destination(mimetype))}
                 /\ nextFile' = nextFile + 1
                 /\ Goto(p, "single_insert")
                 /\ UNCHANGED <<unlinked, unlinkFailed>>
    /\ UNCHANGED <<oneAtATime, userVars, settingsVars, uploadVars>>

\* INSERT INTO uploads (...) VALUES (...) RETURNING ...
SingleInsert(p) ==
    /\ At(p, "single_insert")
    /\ LET row == [id |-> nextUploadId,
                   mime_type |-> req[p].mimetype,
                   size |-> req[p].size,
                   path |-> req[p].path,
                   category |-> getFileCategory(req[p].mimetype),
                   uploaded_at |-> Now,
                   field_name |-> Null]
       IN /\ uploads' = Append(uploads, row)
          /\ nextUploadId' = nextUploadId + 1
          /\ Finish(p, Response(201, "File uploaded successfully", row))
    /\ UNCHANGED <<req, oneAtATime, served, userVars, settingsVars, fileVars>>

\* DELETE /:id: parameter parsing
StartDeleteUpload(p) ==
    /\ CanStart(p)
    /\ Accept
    /\ \E id \in UploadIds :
         req' = [req EXCEPT ![p] = [kind |-> "deleteUpload", id |-> id, fileInfo |-> <<>>]]
    /\ Goto(p, "del_select")
    /\ UNCHANGED <<oneAtATime, userVars, settingsVars, uploadVars, fileVars>>

\* SELECT path, filename FROM uploads WHERE id = $1
DeleteUploadSelect(p) ==
    /\ At(p, "del_select")
    /\ LET fileInfo == SelectSeq(uploads, LAMBDA r : r.id = req[p].id)
       IN IF Len(fileInfo) = 0
          THEN /\ Finish(p, Response(404, "File not found", NoData))
               /\ UNCHANGED req
          ELSE /\ req' = [req EXCEPT ![p].fileInfo = fileInfo]
               /\ Goto(p, "del_delete")
    /\ UNCHANGED <<oneAtATime, served, userVars, settingsVars, uploadVars, fileVars>>

\* DELETE FROM uploads WHERE id = $1
DeleteUploadRow(p) ==
    /\ At(p, "del_delete")
    /\ uploads' = SelectSeq(uploads, LAMBDA r : r.id # req[p].id)
    /\ Goto(p, "del_unlink")
    /\ UNCHANGED <<req, oneAtATime, served, nextUploadId, userVars, settingsVars, fileVars>>

\* the response after the physical delete: an error thrown by unlinkSync is
\* caught by the inner try/catch and only logged
DeleteResponseUncaught(threw) ==
    IF threw THEN Response(500, "Server error", NoData)
    ELSE Response(200, "File deleted successfully", NoData)
DeleteResponse(threw) == Response(200, "File deleted successfully", NoData)

\* try { if (fs.existsSync(path)) fs.unlinkSync(path) } catch { log }; respond
DeleteUploadUnlink(p) ==
    /\ At(p, "del_unlink")
    /\ LET path == req[p].fileInfo[1].path
       IN \/ \* the file is already missing
             /\ path \notin disk
             /\ UNCHANGED fileVars
             /\ Finish(p, DeleteResponse(FALSE))
          \/ \* unlinkSync removes the file
             /\ path \in disk
             /\ disk' = disk \ {path}
             /\ unlinked' = unlinked \cup {path}
             /\ UNCHANGED <<nextFile, unlinkFailed>>
             /\ Finish(p, DeleteResponse(FALSE))
          \/ \* unlinkSync throws
             /\ path \in disk
             /\ unlinked' = unlinked \cup {path}
             /\ unlinkFailed' = unlinkFailed \cup {path}
             /\ UNCHANGED <<disk, nextFile>>
             /\ Finish(p, DeleteResponse(TRUE))
    /\ UNCHANGED <<req, oneAtATime, served, userVars, settingsVars, uploadVars>>

\* A stored file disappears from the upload tree without the service's doing
\* (the delete route guards for it with fs.existsSync).
FileLost ==
    /\ ~Responding
    /\ \E f \in disk : disk' = disk \ {f}
    /\ UNCHANGED <<pc, req, resp, oneAtATime, served, userVars, settingsVars,
                   uploadVars, nextFile, unlinked, unlinkFailed>>

\* the MIME types of the files of a /multiple or /mixed request
BatchMimeSamples == {"image/png", "text/html"}
\* the fields of upload.fields([...]) the model uses, and their maxCount
MixedFields == {"avatar", "documents"}
maxCount(fieldname) == IF fieldname = "avatar" THEN 1 ELSE 3
\* the size of every file of a batch
BatchSize == 1024

SeqsUpTo(S, n) == UNION {[1..k -> S] : k \in 0..n}

\* the longest prefix of the files that multer accepts: it stops at the first
\* file the fileFilter rejects or that exceeds its field's maxCount
RECURSIVE Accepted(_, _)
Accepted(files, kind) ==
    IF files = <<>> THEN <<>>
    ELSE LET front == Accepted(SubSeq(files, 1, Len(files) - 1), kind)
             last == files[Len(files)]
             sameField == SelectSeq(front, LAMBDA f : f.fieldname = last.fieldname)
         IN IF Len(front) < Len(files) - 1 THEN front
            ELSE IF kind = "mixed" /\ Len(sameField) >= maxCount(last.fieldname) THEN front
            ELSE IF ~fileFilter(last.mimetype) THEN front
            ELSE Append(front, last)

\* the error multer passes to next() for the first file it does not accept
BatchError(files, kind) ==
    LET bad == files[Len(Accepted(files, kind)) + 1]
    IN IF fileFilter(bad.mimetype) THEN "Unexpected field" ELSE "File type not allowed"

\* Object.entries(req.files) flattened: the files grouped by field, the fields
\* in the order of their first file
RECURSIVE Grouped(_)
Grouped(files) ==
    IF files = <<>> THEN <<>>
    ELSE SelectSeq(files, LAMBDA f : f.fieldname = files[1].fieldname)
         \o Grouped(SelectSeq(files, LAMBDA f : f.fieldname # files[1].fieldname))

\* the files as multer stores them: file k of the request gets the k-th new path
Stored(files) ==
    [k \in DOMAIN files |->
        [fieldname |-> files[k].fieldname, mimetype |-> files[k].mimetype,
         path |-> <<destination(files[k].mimetype), nextFile + k>>]]

\* upload.array("files", 10) or upload.fields([...]) (multer) and the handler
\* up to its first INSERT
StartBatch(p, kind, files) ==
    /\ CanStart(p)
    /\ Accept
    /\ nextFile + Len(files) <= MaxFiles
    /\ nextUploadId + SingleInFlight + Len(files) <= MaxUploads + 1
    /\ IF Len(Accepted(files, kind)) < Len(files)
       THEN \* multer removes the files it has stored and reports the error
            /\ req' = [req EXCEPT ![p] = [kind |-> kind, sent |-> Len(files),
                                              files |-> <<>>, inserted |-> 0]]
            /\ MiddlewareError(p, BatchError(files, kind))
            /\ nextFile' = nextFile + Len(Accepted(files, kind))
            /\ UNCHANGED <<disk, unlinked, unlinkFailed>>
       ELSE /\ req' = [req EXCEPT ![p] =
                          [kind |-> kind, sent |-> Len(files), inserted |-> 0,
                           files |-> IF kind = "mixed" THEN Grouped(Stored(files))
                                     ELSE Stored(files)]]
            /\ disk' = disk \cup {Stored(files)[k].path : k \in DOMAIN files}
            /\ nextFile' = nextFile + Len(files)
            /\ UNCHANGED <<unlinked, unlinkFailed>>
            /\ IF files # <<>> THEN Goto(p, "batch_insert")
               ELSE IF kind = "multiple"
               THEN \* if (!files || files.length === 0)
                    Finish(p, Response(400, "No files uploaded", NoData))
               ELSE \* the loop over Object.entries(files) has nothing to do
                    Finish(p, Response(201, "Files uploaded successfully", NoData))
    /\ UNCHANGED <<oneAtATime, userVars, settingsVars, uploadVars>>

\* POST /multiple
StartMultiple(p) ==
    \E files \in SeqsUpTo([fieldname : {"files"}, mimetype : BatchMimeSamples], MaxBatch) :
        StartBatch(p, "multiple", files)

\* POST /mixed with a multipart body
StartMixed(p) ==
    \E files \in SeqsUpTo([fieldname : MixedFields, mimetype : BatchMimeSamples], MaxBatch) :
        StartBatch(p, "mixed", files)

\* POST /mixed with a body that is not multipart: multer leaves req.files
\* undefined, Object.entries throws and the catch block answers
StartMixedNotMultipart(p) ==
    /\ CanStart(p)
    /\ Accept
    /\ req' = [req EXCEPT ![p] = [kind |-> "mixed", sent |-> 0, files |-> <<>>,
                                 inserted |-> 0]]
    /\ Finish(p, Response(500, "Server error during file upload", NoData))
    /\ UNCHANGED <<oneAtATime, userVars, settingsVars, uploadVars, fileVars>>

\* the INSERT for the next file of the loop; after the last one the answer
BatchInsert(p) ==
    /\ At(p, "batch_insert")
    /\ LET file == req[p].files[req[p].inserted + 1]
           row == [id |-> nextUploadId,
                   mime_type |-> file.mimetype,
                   size |-> BatchSize,
                   path |-> file.path,
                   category |-> getFileCategory(file.mimetype),
                   uploaded_at |-> Now,
                   field_name |-> IF req[p].kind = "mixed" THEN file.fieldname ELSE Null]
       IN /\ uploads' = Append(uploads, row)
          /\ nextUploadId' = nextUploadId + 1
          /\ req' = [req EXCEPT ![p].inserted = @ + 1]
          /\ IF req[p].inserted + 1 < Len(req[p].files)
             THEN UNCHANGED <<pc, resp>>
             ELSE Finish(p, Response(201, IF req[p].kind = "mixed"
                                          THEN "Files uploaded successfully"
                                          ELSE "files uploaded successfully", NoData))
    /\ UNCHANGED <<oneAtATime, served, userVars, settingsVars, fileVars>>

\* the values of the category, page and limit query parameters; a request
\* without page or limit gets the defaults
ListCategories == {Null, "", "image", "document"}
DefaultPage == 1
DefaultLimit == 20
Pages == {DefaultPage, 2}
Limits == {1, 2, DefaultLimit}

\* const offset = (Number(page) - 1) * Number(limit)
offsetFromPage(page, limit) == page * limit
offset(page, limit) == (page - 1) * limit

\* WHERE category = $1, present only if (category)
Matching(category) ==
    IF Truthy(category) THEN SelectSeq(uploads, LAMBDA r : r.category = category)
    ELSE uploads

\* ORDER BY uploaded_at DESC
RECURSIVE OrderByUploadedAtDesc(_)
OrderByUploadedAtDesc(rows) ==
    IF rows = <<>> THEN <<>>
    ELSE LET n == CHOOSE i \in DOMAIN rows :
                      \A j \in DOMAIN rows : rows[j].uploaded_at <= rows[i].uploaded_at
         IN <<rows[n]>> \o OrderByUploadedAtDesc(SelectSeq(rows, LAMBDA r : r # rows[n]))

\* LIMIT limit OFFSET offset
LimitOffset(rows, limit, off) ==
    SubSeq(rows, off + 1, IF off + limit < Len(rows) THEN off + limit ELSE Len(rows))

\* Math.ceil(count / limit)
ceil(count, limit) ==
    IF count % limit = 0 THEN count \div limit ELSE (count \div limit) + 1

\* GET /: query parsing
StartList(p) ==
    /\ CanStart(p)
    /\ Accept
    /\ \E category \in ListCategories, page \in Pages, limit \in Limits :
         req' = [req EXCEPT ![p] = [kind |-> "list", category |-> category,
                                    page |-> page, limit |-> limit, rows |-> <<>>]]
    /\ Goto(p, "list_select")
    /\ UNCHANGED <<oneAtATime, userVars, settingsVars, uploadVars, fileVars>>

\* SELECT ... FROM uploads [WHERE category = $1] ORDER BY uploaded_at DESC
\* LIMIT $2 OFFSET $3
ListSelect(p) ==
    /\ At(p, "list_select")
    /\ req' = [req EXCEPT ![p].rows =
                   LimitOffset(OrderByUploadedAtDesc(Matching(req[p].category)),
                               req[p].limit, offset(req[p].page, req[p].limit))]
    /\ Goto(p, "list_count")
    /\ UNCHANGED <<oneAtATime, served, userVars, settingsVars, uploadVars, fileVars>>

\* SELECT COUNT(*) FROM uploads [WHERE category = $1], and the answer
ListCount(p) ==
    /\ At(p, "list_count")
    /\ LET count == Len(Matching(req[p].category))
       IN Finish(p, Response(200, Null,
                             [rows |-> req[p].rows, page |-> req[p].page,
                              limit |-> req[p].limit, total |-> count,
                              totalPages |-> ceil(count, req[p].limit)]))
    /\ UNCHANGED <<req, oneAtATime, served, userVars, settingsVars, uploadVars, fileVars>>

\* the upload routes: POST /single and DELETE /:id, and the loss of a file
UploadsNext ==
    \/ \E p \in Procs :
        \/ StartSingle(p)
        \/ SingleInsert(p)
        \/ StartDeleteUpload(p)
        \/ DeleteUploadSelect(p)
        \/ DeleteUploadRow(p)
        \/ DeleteUploadUnlink(p)
        \/ Return(p)
    \/ FileLost

\* the routes that store files and list them: POST /single, POST /multiple,
\* POST /mixed and GET /
IntakeNext ==
    \E p \in Procs :
        \/ StartSingle(p)
        \/ SingleInsert(p)
        \/ StartMultiple(p)
        \/ StartMixed(p)
        \/ StartMixedNotMultipart(p)
        \/ BatchInsert(p)
        \/ StartList(p)
        \/ ListSelect(p)
        \/ ListCount(p)
        \/ Return(p)

----------------------------------------------------------------------------
(* The intake of one file, step by step: filter, destination, category *)

\* multer calls fileFilter before anything is stored
ClassifyFilter(p) ==
    /\ At(p, "classify")
    /\ IF fileFilter(req[p].mimetype)
       THEN Goto(p, "classify_store")
       ELSE MiddlewareError(p, "File type not allowed")
    /\ UNCHANGED <<req, oneAtATime, served, userVars, settingsVars, uploadVars, fileVars>>

\* multer asks storage.destination for the directory
ClassifyStore(p) ==
    /\ At(p, "classify_store")
    /\ req' = [req EXCEPT ![p].dir = destination(req[p].mimetype)]
    /\ Goto(p, "classify_category")
    /\ UNCHANGED <<oneAtATime, served, userVars, settingsVars, uploadVars, fileVars>>

\* the handler calls getFileCategory
ClassifyCategory(p) ==
    /\ At(p, "classify_category")
    /\ req' = [req EXCEPT ![p].category = getFileCategory(req[p].mimetype)]
    /\ Goto(p, "classified")
    /\ UNCHANGED <<oneAtATime, served, userVars, settingsVars, uploadVars, fileVars>>

ClassifyNext ==
    \E p \in Procs :
        \/ ClassifyFilter(p)
        \/ ClassifyStore(p)
        \/ ClassifyCategory(p)

----------------------------------------------------------------------------
(* Initial states: empty tables, an empty upload tree, every slot free *)

InitStore ==
    /\ resp = [p \in Procs |-> NoResp]
    /\ users = <<>>
    /\ nextUserId = 1
    /\ settings = <<>>
    /\ uploads = <<>>
    /\ nextUploadId = 1
    /\ disk = {}
    /\ nextFile = 0
    /\ served = 0
    /\ unlinked = {}
    /\ unlinkFailed = {}

InitCommon ==
    /\ pc = [p \in Procs |-> "idle"]
    /\ req = [p \in Procs |-> NoReq]
    /\ InitStore

\* one file of any declared MIME type arrives at slot 1
InitClassify ==
    /\ pc = [p \in Procs |-> IF p = 1 THEN "classify" ELSE "idle"]
    /\ \E mimetype \in AllMimeTypes :
         req = [p \in Procs |->
                  IF p = 1 THEN [kind |-> "file", mimetype |-> mimetype,
                                 dir |-> Null, category |-> Null]
                  ELSE NoReq]
    /\ InitStore
    /\ oneAtATime = TRUE

\* the state after one POST / with a site name: the settings row is present
InitPresent ==
    /\ pc = [p \in Procs |-> "idle"]
    /\ req = [p \in Procs |-> NoReq]
    /\ resp = [p \in Procs |-> NoResp]
    /\ users = <<>>
    /\ nextUserId = 1
    /\ settings = <<InsertedRow(1, InsertValues(Body({"site_name"}, 1)))>>
    /\ uploads = <<>>
    /\ nextUploadId = 1
    /\ disk = {}
    /\ nextFile = 0
    /\ served = 1
    /\ unlinked = {}
    /\ unlinkFailed = {}
    /\ oneAtATime = FALSE

InitSeq == InitCommon /\ oneAtATime = TRUE
InitConc == InitCommon /\ oneAtATime = FALSE

\* the user routes, requests one at a time
UsersSeq == InitSeq /\ [][UsersNext]_vars
\* the user routes, requests overlapping
UsersConc == InitConc /\ [][UsersNext]_vars
\* the settings routes, requests one at a time
SettingsSeq == InitSeq /\ [][SettingsNext]_vars
\* the settings routes, requests overlapping
SettingsConc == InitConc /\ [][SettingsNext]_vars
\* updates and asset replacements on a present settings row, overlapping
SettingsPresentConc == InitPresent /\ [][ReplaceNext]_vars
\* the intake and listing routes, requests one at a time
UploadsSeq == InitSeq /\ [][IntakeNext]_vars
\* the single upload and the delete route, requests overlapping
UploadsConc == InitConc /\ [][UploadsNext]_vars
\* the classification of one file of every MIME type
UploadClassify == InitClassify /\ [][ClassifyNext]_vars

----------------------------------------------------------------------------
(* Claims about the user routes *)

\* the row of users (if any) whose email equals e ignoring letter case
EmailTaken(e) == \E i \in DOMAIN users : ToLowerCase(users[i].email) = ToLowerCase(e)

C3_SelectStep(p) ==
    (pc[p] = "reg_select" /\ pc'[p] # "reg_select") =>
        /\ users' = users
        /\ IF EmailTaken(req[p].email)
           THEN pc'[p] = "done" /\ resp'[p].status = 409
           ELSE pc'[p] = "reg_insert"

C3_InsertStep(p) ==
    (pc[p] = "reg_insert" /\ pc'[p] # "reg_insert") =>
        /\ ~EmailTaken(req[p].email)
        /\ Len(users') = Len(users) + 1
        /\ SubSeq(users', 1, Len(users)) = users
        /\ users'[Len(users')].email = ToLowerCase(req[p].email)
        /\ users'[Len(users')].role =
               (IF req[p].role \in {Null, ""} THEN "user" ELSE req[p].role)
        /\ resp'[p].status = 201

\* C3: with requests run one at a time, a registration whose email is already
\* held by a row (compared ignoring letter case) is answered 409 and inserts
\* nothing; any other well-formed registration inserts exactly one row, with the
\* lower-cased email and the requested role ("user" when none is given).
C3_RegisterConflictOrInsert ==
    [][\A p \in Procs : C3_SelectStep(p) /\ C3_InsertStep(p)]_vars

\* a registration was refused for an email that differs from a stored one only
\* in letter case, after an earlier registration without a role was inserted
C3_Witness ==
    \E p \in Procs :
        /\ pc[p] = "done"
        /\ req[p].kind = "register"
        /\ resp[p].status = 409
        /\ req[p].email # ToLowerCase(req[p].email)
        /\ \E i \in DOMAIN users :
               users[i].email = ToLowerCase(req[p].email) /\ users[i].role = "user"

\* C4: no two rows of users have the same email compared case-insensitively.
C4_EmailUnique ==
    \A i, j \in DOMAIN users :
        i # j => ToLowerCase(users[i].email) # ToLowerCase(users[j].email)

\* a finished login whose email matches no row
LoginUnknownEmail(p) ==
    /\ pc[p] = "done"
    /\ req[p].kind = "login"
    /\ req[p].email # NoEmail /\ Truthy(req[p].password)
    /\ Len(UsersByEmail(ToLowerCase(req[p].email))) = 0

\* a finished login whose email matches a row with another password
LoginWrongPassword(p) ==
    /\ pc[p] = "done"
    /\ req[p].kind = "login"
    /\ req[p].email # NoEmail /\ Truthy(req[p].password)
    /\ Len(UsersByEmail(ToLowerCase(req[p].email))) > 0
    /\ ~Compare(req[p].password, UsersByEmail(ToLowerCase(req[p].email))[1].password)

\* C5: a login with an unknown email and a login with a wrong password get the
\* same response: each gets the status the other one gets, the message
\* "Invalid Credentials", and no token.
C5_LoginFailuresAlike ==
    \A p \in Procs :
        /\ LoginUnknownEmail(p) =>
              /\ resp[p].status = WrongPasswordStatus
              /\ resp[p].message = "Invalid Credentials"
              /\ resp[p].data = NoData
        /\ LoginWrongPassword(p) =>
              /\ resp[p].status = UnknownEmailStatus
              /\ resp[p].message = "Invalid Credentials"
              /\ resp[p].data = NoData

----------------------------------------------------------------------------
(* Claims about the settings routes *)

C1_ExistsStep(p) ==
    (pc[p] = "set_exists" /\ pc'[p] # "set_exists") =>
        /\ settings' = settings
        /\ IF Len(settings) > 0
           THEN pc'[p] = "done" /\ resp'[p].status = 400
           ELSE pc'[p] = "set_insert"

C1_InsertStep(p) ==
    (pc[p] = "set_insert" /\ pc'[p] # "set_insert") =>
        /\ Len(settings) = 0
        /\ Len(settings') = 1
        /\ settings'[1].site_name = req[p].body.site_name
        /\ resp'[p].status = 201

\* C1: with requests run one at a time, a create with a site name on the empty
\* table inserts one row; a create on a table that holds a row is answered 400
\* and inserts nothing; the table never holds more than one row.
C1_CreateOnce ==
    [][/\ \A p \in Procs : C1_ExistsStep(p) /\ C1_InsertStep(p)
       /\ Len(settings') <= 1]_vars

\* a create was refused because the row of an earlier create exists
C1_Witness ==
    \E p \in Procs :
        /\ pc[p] = "done"
        /\ req[p].kind = "createSettings"
        /\ Truthy(req[p].body.site_name)
        /\ resp[p].status = 400
        /\ Len(settings) = 1

\* C2: under any interleaving of create requests the settings table never holds
\* more than one row (at most one create succeeds).
C2_AtMostOneSettingsRow == Len(settings) <= 1

AssetKinds == {"logo", "favicon"}

\* slot p takes the step that follows the UPDATE of an asset request
CleanupStep(p) ==
    pc[p] = "asset_cleanup" /\ pc'[p] = "done" /\ req[p].kind \in AssetKinds

\* C6: a file disappears from disk (and unlinkSync is called) only in the step
\* after an asset request's UPDATE returned a row, and only for the URL that was
\* stored before the UPDATE, which is non-null and differs from the new path;
\* when the UPDATE returned no row or no previous URL was stored, nothing is
\* deleted.
C6_DeleteOnlyAfterUpdate ==
    [][/\ \A f \in (disk \ disk') \cup (unlinked' \ unlinked) :
            \E p \in Procs :
                /\ CleanupStep(p)
                /\ Len(req[p].result) > 0
                /\ Len(req[p].currentSettings) > 0
                /\ f = req[p].currentSettings[1]
                /\ f # NoPath
                /\ f # req[p].path
                /\ req[p].result[1][UrlColumn(req[p].kind)] = req[p].path
       /\ \A p \in Procs :
            (/\ CleanupStep(p)
             /\ \/ Len(req[p].result) = 0
                \/ Len(req[p].currentSettings) = 0
                \/ req[p].currentSettings[1] = NoPath)
            => (disk' = disk /\ unlinked' = unlinked)]_vars

\* an asset request has deleted the file of the URL it replaced
C6_Witness ==
    \E p \in Procs :
        /\ pc[p] = "done"
        /\ req[p].kind \in AssetKinds
        /\ Len(req[p].result) > 0
        /\ Len(req[p].currentSettings) > 0
        /\ req[p].currentSettings[1] # NoPath
        /\ req[p].currentSettings[1] \notin disk
        /\ req[p].currentSettings[1] \in unlinked
        /\ req[p].path \in disk

\* a finished logo replacement that replaced an earlier uploaded logo
SecondLogoDone(p) ==
    /\ pc[p] = "done"
    /\ req[p].kind = "logo"
    /\ resp[p].status = 200
    /\ Len(req[p].currentSettings) > 0
    /\ req[p].currentSettings[1] # NoPath

\* C7: with requests run one at a time, when a logo replacement that follows an
\* earlier one has finished, the newest row's logo_url is the second file,
\* unlinkSync was called on the first file, and unless that call failed the
\* first file is gone and the second one is on disk.
C7_SecondLogoReplacesFirst ==
    \A p \in Procs :
        SecondLogoDone(p) =>
            LET first == req[p].currentSettings[1]
                second == req[p].path
            IN /\ first # second
               /\ settings[Len(settings)].logo_url = second
               /\ \A i \in DOMAIN settings : settings[i].logo_url # first
               /\ first \in unlinked
               /\ first \notin unlinkFailed => (first \notin disk /\ second \in disk)
               /\ second \in disk

\* the second logo replacement has finished and the first file was deleted
C7_Witness ==
    \E p \in Procs :
        /\ SecondLogoDone(p)
        /\ req[p].currentSettings[1] \notin unlinkFailed
        /\ req[p].currentSettings[1] \notin disk
        /\ disk = {req[p].path}

----------------------------------------------------------------------------
(* Claims about the upload routes *)

HasUpload(t, id) == \E i \in DOMAIN t : t[i].id = id

C8_SelectStep(p) ==
    (pc[p] = "del_select" /\ pc'[p] # "del_select") =>
        /\ uploads' = uploads
        /\ disk' = disk
        /\ IF HasUpload(uploads, req[p].id)
           THEN pc'[p] = "del_delete"
           ELSE pc'[p] = "done" /\ resp'[p].status = 404

C8_RowStep(p) ==
    (pc[p] = "del_delete" /\ pc'[p] # "del_delete") =>
        /\ ~HasUpload(uploads', req[p].id)
        /\ \A i \in DOMAIN uploads :
               uploads[i].id # req[p].id => HasUpload(uploads', uploads[i].id)
        /\ disk' = disk
        /\ unlinked' = unlinked
        /\ pc'[p] = "del_unlink"

C8_UnlinkStep(p) ==
    (pc[p] = "del_unlink" /\ pc'[p] # "del_unlink") =>
        /\ uploads' = uploads
        /\ ~HasUpload(uploads', req[p].id)
        /\ disk \ disk' \subseteq {req[p].fileInfo[1].path}
        /\ pc'[p] = "done"
        /\ resp'[p].status = 200

\* C8: deleting an upload removes the row first and touches the file only
\* afterwards; the request is answered 200 with the row removed whether the
\* file is removed, unlinkSync throws, or the file is already missing, and the
\* row is not restored; an id with no row is answered 404 and neither the
\* table nor the disk changes.
C8_DeleteRowThenFile ==
    [][\A p \in Procs : C8_SelectStep(p) /\ C8_RowStep(p) /\ C8_UnlinkStep(p)]_vars

\* a delete was answered 200 although unlinkSync threw: the row is gone, the
\* file is still there
C8_Witness ==
    \E p \in Procs :
        /\ pc[p] = "done"
        /\ req[p].kind = "deleteUpload"
        /\ resp[p].status = 200
        /\ req[p].fileInfo[1].path \in unlinkFailed
        /\ req[p].fileInfo[1].path \in disk
        /\ ~HasUpload(uploads, req[p].id)

\* the category and directory of the allow-list group that contains a type
GroupCategory(mimetype) ==
    CASE mimetype \in images -> "image"
      [] mimetype \in videos -> "video"
      [] mimetype \in documents -> "document"
      [] mimetype \in others -> "other"
GroupDirectory(category) ==
    CASE category = "image" -> "./uploads/images"
      [] category = "video" -> "./uploads/videos"
      [] category = "document" -> "./uploads/documents"
      [] category = "other" -> "./uploads/others"

\* C9: a file whose MIME type is in the allow-list passes the filter, its
\* category is the one of the (single) allow-list group that contains the type
\* and it is stored in that category's directory; a file whose MIME type is not
\* in the allow-list is rejected by the filter.
C9_ClassificationConsistent ==
    \A p \in Procs :
        req[p].kind = "file" =>
            LET m == req[p].mimetype
            IN /\ pc[p] = "done" <=> (m \notin ALLOWED_MIME_TYPES /\ resp[p] # NoResp)
               /\ pc[p] \in {"classify_store", "classify_category", "classified"}
                    => m \in ALLOWED_MIME_TYPES
               /\ m \in ALLOWED_MIME_TYPES =>
                    Cardinality({g \in {images, videos, documents, others} : m \in g}) = 1
               /\ pc[p] \in {"classify_category", "classified"} =>
                    req[p].dir = GroupDirectory(GroupCategory(m))
               /\ pc[p] = "classified" =>
                    /\ req[p].category \in {"image", "video", "document", "other"}
                    /\ req[p].category = GroupCategory(m)
                    /\ req[p].dir = GroupDirectory(req[p].category)

\* a document has been classified and stored
C9_Witness ==
    \E p \in Procs :
        /\ pc[p] = "classified"
        /\ req[p].mimetype = "text/csv"
        /\ req[p].category = "document"
        /\ req[p].dir = "./uploads/documents"

\* C10: a single upload that is too large or of a type outside the allow-list
\* is answered 400 with a message naming the reason; no row is created and no
\* file is kept.
C10_RejectedWith400 ==
    \A p \in Procs :
        (/\ pc[p] = "done"
         /\ req[p].kind = "single"
         /\ req[p].mimetype # Null
         /\ \/ TooLarge(req[p].size, MAX_FILE_SIZE)
            \/ req[p].mimetype \notin ALLOWED_MIME_TYPES)
        => /\ resp[p].status = 400
           /\ resp[p].message \in {"File too large", "File type not allowed"}
           /\ req[p].path = NoPath
           /\ \A i \in DOMAIN uploads :
                  /\ ~TooLarge(uploads[i].size, MAX_FILE_SIZE)
                  /\ uploads[i].mime_type \in ALLOWED_MIME_TYPES

\* the step on which request p of the given kind gets its response
Answers(p, kind) == pc[p] # "done" /\ pc'[p] = "done" /\ req'[p].kind = kind

\* some row other than id holds the email, compared without regard to case
HeldByAnother(email, id) ==
    \E i \in DOMAIN users :
        users[i].id # id /\ ToLowerCase(users[i].email) = ToLowerCase(email)

\* one step of the property below, for request p
C14_UpdateStep(p) ==
    Answers(p, "updateUser") =>
        LET q == req'[p]
            exists == \E i \in DOMAIN users : users[i].id = q.id
        IN /\ ~exists => resp'[p].status = 404 /\ users' = users
           /\ (exists /\ q.email # NoEmail /\ HeldByAnother(q.email, q.id))
                  => resp'[p].status = 409 /\ users' = users
           /\ (exists /\ q.email # NoEmail /\ ~HeldByAnother(q.email, q.id))
                  => /\ resp'[p].status = 200
                     /\ \E i \in DOMAIN users' :
                            /\ users'[i].id = q.id
                            /\ users'[i].email = ToLowerCase(q.email)

\* C14: a user update whose email is held, in any letter case, by a different
\* user is answered 409 and changes no user row; supplying the user's own
\* current email is no conflict; an update of an id without a row is answered
\* 404 and changes nothing.
C14_UpdateEmailConflict ==
    [][\A p \in Procs : C14_UpdateStep(p)]_vars

\* an update was answered 409 for an email in another letter case than stored
C14_Witness ==
    \E p \in Procs :
        /\ pc[p] = "done"
        /\ req[p].kind = "updateUser"
        /\ resp[p].status = 409
        /\ req[p].email # ToLowerCase(req[p].email)
        /\ HeldByAnother(req[p].email, req[p].id)
        /\ \E i \in DOMAIN users : users[i].id = req[p].id

\* the body supplies none of name, email, password and role
NoFields(q) ==
    ~Truthy(q.name) /\ q.email = NoEmail /\ ~Truthy(q.password) /\ ~Truthy(q.role)

\* one step of the property below, for request p
C20_EmptyUpdateStep(p) ==
    (/\ Answers(p, "updateUser")
     /\ NoFields(req'[p])
     /\ \E i \in DOMAIN users : users[i].id = req'[p].id)
    => /\ resp'[p].status = 400
       /\ resp'[p].message = "No fields to update"
       /\ users' = users

\* C20: an update of an existing user whose body supplies none of name, email,
\* password and role is answered 400 "No fields to update" and leaves the
\* user rows, updated_at included, as they were.
C20_EmptyUpdateRejected ==
    [][\A p \in Procs : C20_EmptyUpdateStep(p)]_vars

----------------------------------------------------------------------------
(* Claims about missing fields, settings updates and asset replacement *)

\* one step of the property below, for request p
C12_MissingFieldStep(p) ==
    LET q == req'[p]
        missing ==
            \/ /\ Answers(p, "register")
               /\ (~Truthy(q.name) \/ q.email = NoEmail \/ ~Truthy(q.password))
            \/ /\ Answers(p, "login")
               /\ (q.email = NoEmail \/ ~Truthy(q.password))
            \/ /\ Answers(p, "createSettings")
               /\ ~Truthy(q.body.site_name)
    IN missing => /\ resp'[p].status = 400
                  /\ UNCHANGED <<users, settings, uploads>>

\* C12: a request without a required field is answered 400 and changes no
\* table: a registration without name, email or password, a login without
\* email or password, a settings create without site name.
C12_MissingFieldIs400 ==
    [][\A p \in Procs : C12_MissingFieldStep(p)]_vars

\* one step of the property below, for request p
C13_UpdateStep(p) ==
    Answers(p, "updateSettings") =>
        LET q == req'[p]
            exists == \E i \in DOMAIN settings : settings[i].id = q.id
        IN /\ ~exists => resp'[p].status = 404 /\ settings' = settings
           /\ exists =>
                /\ resp'[p].status = 200
                /\ DOMAIN settings' = DOMAIN settings
                /\ \A i \in DOMAIN settings :
                       IF settings[i].id = q.id
                       THEN \A f \in ConfigFields :
                                settings'[i][f] = IF q.body[f] # Null THEN q.body[f]
                                                  ELSE settings[i][f]
                       ELSE settings'[i] = settings[i]

\* C13: PUT /:id on a row that exists merges: each of the fourteen fields ends
\* as the body's value when the body supplies it and as the row's prior value
\* when it does not; on an id without a row the answer is 404 and nothing
\* changes.
C13_UpdateMerges ==
    [][\A p \in Procs : C13_UpdateStep(p)]_vars

\* an update that supplied only a new tagline kept the row's site name
C13_Witness ==
    \E p \in Procs :
        /\ pc[p] = "done"
        /\ req[p].kind = "updateSettings"
        /\ resp[p].status = 200
        /\ req[p].body.site_name = Null
        /\ req[p].body.tagline = "v2"
        /\ \E i \in DOMAIN settings :
               /\ settings[i].id = req[p].id
               /\ settings[i].site_name = "v1"
               /\ settings[i].tagline = "v2"

\* the files of the logo directory that are on disk
LogoFiles == {f \in disk : f[1] = AssetDir("logo")}

\* C16: however logo and favicon replacements and field updates interleave,
\* the file that the newest settings row names in logo_url, and the one it
\* names in favicon_url, is on disk: a replacement never deletes it.
C16_ReferencedFileKept ==
    settings # <<>> =>
        \A c \in {"logo_url", "favicon_url"} :
            settings[Len(settings)][c] # NoPath => settings[Len(settings)][c] \in disk

\* a replacement deleted the file of an overlapping replacement that is still
\* running, and the row names the newer file
C16_Witness ==
    \E p, q \in Procs :
        /\ p # q
        /\ pc[p] = "done" /\ req[p].kind = "logo"
        /\ pc[q] = "asset_cleanup" /\ req[q].kind = "logo"
        /\ req[q].path \in unlinked
        /\ req[q].path \notin disk
        /\ settings # <<>>
        /\ settings[Len(settings)].logo_url = req[p].path
        /\ req[p].path \in disk

\* C17: once overlapping logo replacements on a present row have all
\* completed and no deletion has failed, the logo directory holds exactly one
\* file, the one logo_url names.
C17_OneLogoFileRemains ==
    (/\ \A p \in Procs : req[p].kind = "logo" => pc[p] = "done"
     /\ unlinkFailed = {}
     /\ LogoFiles # {})
    => LogoFiles = {settings[Len(settings)].logo_url}

\* C18: a logo or favicon upload answered with success leaves the newest
\* settings row naming the file of the response, also when no settings row
\* existed when the request arrived.
C18_SuccessMeansReferenced ==
    \A p \in Procs :
        (pc[p] = "done" /\ req[p].kind \in {"logo", "favicon"} /\ resp[p].status = 200)
        => /\ settings # <<>>
           /\ settings[Len(settings)]
                  [IF req[p].kind = "logo" THEN "logo_url" ELSE "favicon_url"]
              = resp[p].data.url

\* the request that takes the step
Moves(p) == pc'[p] # pc[p]
KindOf(p) == IF req[p].kind = "none" THEN req'[p].kind ELSE req[p].kind

\* one step of the property below, for request p
C19_FrameStep(p) ==
    (Moves(p) /\ settings' # settings) =>
        /\ KindOf(p) \in {"logo", "favicon", "updateSettings"}
              => Len(settings') = Len(settings)
        /\ KindOf(p) \in {"logo", "favicon"}
              => LET c == IF KindOf(p) = "logo" THEN "logo_url" ELSE "favicon_url"
                     n == Len(settings)
                 IN settings' = [settings EXCEPT ![n][c] = settings'[n][c]]
        /\ KindOf(p) = "updateSettings"
              => \A i \in DOMAIN settings, c \in {"logo_url", "favicon_url", "created_by"} :
                     settings'[i][c] = settings[i][c]

\* C19: a logo replacement changes no column but logo_url of the newest row
\* (updated_at aside), a favicon replacement no column but favicon_url of the
\* newest row, a field update never logo_url, favicon_url or created_by, and
\* none of them the number of rows.
C19_SettingsFrame ==
    [][\A p \in Procs : C19_FrameStep(p)]_vars

\* a logo replacement has written the row that already had a favicon
C19_Witness ==
    \E p \in Procs :
        /\ pc[p] \in {"asset_cleanup", "done"}
        /\ req[p].kind = "logo"
        /\ settings # <<>>
        /\ settings[Len(settings)].logo_url = req[p].path
        /\ settings[Len(settings)].favicon_url # NoPath
        /\ settings[Len(settings)].site_name = "v1"

----------------------------------------------------------------------------
(* Claims about requests without a file and about the listing *)

\* the request carries no file
NoFileIn(q) ==
    IF q.kind = "single" THEN q.mimetype = Null
    ELSE q.kind \in {"multiple", "mixed"} /\ q.sent = 0

\* one step of the property below, for request p
C11_NoFileStep(p) ==
    (/\ pc[p] = "idle"
     /\ pc'[p] = "done"
     /\ req'[p].kind \in {"single", "multiple", "mixed"}
     /\ NoFileIn(req'[p]))
    => /\ resp'[p].status >= 400
       /\ UNCHANGED <<uploads, nextUploadId>>

\* C11: on /single, /multiple and /mixed a request that carries no file is
\* answered with an error response and performs no database operation.
C11_NoFileRejected ==
    [][\A p \in Procs : C11_NoFileStep(p)]_vars

\* the rows of uploads the category parameter selects
MatchingIds(category) ==
    {uploads[i].id : i \in {j \in DOMAIN uploads :
                               Truthy(category) => uploads[j].category = category}}

\* the number of selected rows that are newer than row r
Rank(r, category) ==
    Cardinality({i \in DOMAIN uploads :
                    /\ uploads[i].id \in MatchingIds(category)
                    /\ uploads[i].uploaded_at > r.uploaded_at})

\* C15: the listing answers with rows of the given category only (all rows
\* without one), newest first, the rows after the first (page-1)*limit and at
\* most limit of them; total is the number of rows the filter selects and
\* totalPages is ceil(total/limit).
C15_ListPage ==
    \A p \in Procs :
        (pc[p] = "done" /\ req[p].kind = "list") =>
            LET d == resp[p].data
                q == req[p]
                skip == (q.page - 1) * q.limit
            IN /\ resp[p].status = 200
               /\ \A k \in DOMAIN d.rows :
                      /\ d.rows[k].id \in MatchingIds(q.category)
                      /\ \E i \in DOMAIN uploads : uploads[i] = d.rows[k]
                      /\ Rank(d.rows[k], q.category) = skip + k - 1
               /\ Len(d.rows) <= q.limit
               /\ \/ Len(d.rows) = q.limit
                  \/ skip + Len(d.rows) = Cardinality(MatchingIds(q.category))
                  \/ Len(d.rows) = 0 /\ skip >= Cardinality(MatchingIds(q.category))
               /\ d.total = Cardinality(MatchingIds(q.category))
               /\ d.totalPages * q.limit >= d.total
               /\ (d.totalPages - 1) * q.limit < d.total

\* the second page, of one row, of a listing of images with two images stored
C15_Witness ==
    \E p \in Procs :
        /\ pc[p] = "done"
        /\ req[p].kind = "list"
        /\ req[p].category = "image"
        /\ req[p].page = 2
        /\ req[p].limit = 1
        /\ Len(resp[p].data.rows) = 1
        /\ resp[p].data.total = 2
        /\ resp[p].data.totalPages = 2

====
